---------------------------- MODULE Spec2Model ----------------------------
(***************************************************************************)
(* A model of one ledger node of LAB3 (node_common.py, blockchain_core.py) *)
(* together with the peers and the command shell that drive it.            *)
(*                                                                         *)
(* The node is the Node object of node_common.py: its chain, its pending   *)
(* pool, the cached ledger E_CASH_BALANCES, the peer registry and the      *)
(* single non-reentrant threading.Lock.  The threads are the command       *)
(* shell and one receive loop (_handle_connection) per peer connection.    *)
(* Peers are the environment: the payload of every message is drawn from   *)
(* bounded sets of well-typed values (JSON-serialisable transaction dicts, *)
(* Block objects, lists of Block objects), honest or not.                  *)
(*                                                                         *)
(* A critical section (a `with self.lock:` body) is one step, taken when   *)
(* the lock is free.  A thread that asks for the lock while it holds it    *)
(* stays at that program point with the lock held: threading.Lock is not   *)
(* reentrant.                                                              *)
(***************************************************************************)
EXTENDS Integers, Sequences, FiniteSets, TLC

VARIABLES
    chain,      \* self.blockchain.chain: sequence of blocks
    pending,    \* self.pending_transactions: sequence of transactions
    ledger,     \* E_CASH_BALANCES: the cached balances
    lock,       \* self.lock: the thread that holds it, or NoThread
    peers,      \* self.peers: the addresses in the live peer registry
    pc,         \* the program point of every thread
    cur,        \* the message or argument a thread has in hand
    result,     \* what the latest step did: the branch its code took
    sent,       \* the messages the latest step wrote to peer sockets
    sock,       \* the socket of every connection
    wire,       \* per connection, the frame the peer wrote and the bytes of
                \* it the node has not read yet
    rx,         \* the local variables of every receive loop
    stop_event, \* self.stop_event
    server_socket,  \* self.server_socket
    tasks,      \* the accept loop and the periodic connector
    registry,   \* self.peers as a dict: per address, the connection whose
                \* socket is stored under it (0: no entry)
    loops       \* per address, the receive loops of the connections that
                \* came from it, one after the other

regvars == <<registry, loops>>

netvars == <<sock, wire, rx, stop_event, server_socket, tasks, registry, loops>>

vars == <<chain, pending, ledger, lock, peers, pc, cur, result, sent,
          sock, wire, rx, stop_event, server_socket, tasks, registry, loops>>

---------------------------------------------------------------------------
(* Bounds of the model *)

\* longest chain a peer offers
MaxChainLen == 3
\* the shell and the peers stop submitting when the pool holds this many
MaxPending == 2

---------------------------------------------------------------------------
(* Constants of node_common.py *)

MSG_TYPE_NEW_TRANSACTION == 1
MSG_TYPE_NEW_BLOCK == 2
MSG_TYPE_REQUEST_CHAIN == 3
MSG_TYPE_SEND_CHAIN == 4
MSG_TYPE_REQUEST_PEERS == 5
MSG_TYPE_SEND_PEERS == 6
MSG_BUFFER_SIZE == 4096
MSG_HEADER_LENGTH == 4
TX_TRANSFER_ECASH == "TRANSFER_ECASH"
SYSTEM_ACCOUNT == "SYSTEM_BANK_001"
INITIAL_SYSTEM_BALANCE == 1000000
USERS == {"dr_alice", "lab_tech_bob", "pharm_charlie"}

\* Python's None, as the result of dict.get on a missing key
None == "None"
\* every key a balance table is read or written at
Principals == USERS \cup {SYSTEM_ACCOUNT, None}

\* dict.get(k, d)
Get(tx, k, d) == IF k \in DOMAIN tx THEN tx[k] ELSE d

---------------------------------------------------------------------------
(* blockchain_core.py: Block *)

\* previous_hash of a genesis block, the string "0"
ZeroHash == <<"0">>
\* a stored hash that is not the digest of any block
BadHash == <<"tampered">>

\* Block.calculate_hash: SHA-256 of the canonical JSON of the five fields.
\* The digest is modelled collision-free: it is the tuple of what is hashed,
\* so two blocks have the same hash iff the five fields agree.
calculate_hash(b) ==
    <<b.index, b.timestamp, b.transactions, b.previous_hash, b.nonce>>

\* Block.__init__: the hash is computed at construction
Block(index, timestamp, transactions, previous_hash, nonce) ==
    LET b == [index |-> index, timestamp |-> timestamp,
              transactions |-> transactions,
              previous_hash |-> previous_hash, nonce |-> nonce]
    IN  [index |-> index, timestamp |-> timestamp,
         transactions |-> transactions,
         previous_hash |-> previous_hash, nonce |-> nonce,
         hash |-> calculate_hash(b)]

\* Blockchain.create_genesis_block, at time now
create_genesis_block(now) ==
    Block(0, now, <<[type |-> "genesis", details |-> "The beginning"]>>,
          ZeroHash, 0)

\* Blockchain.get_latest_block (a block, or NoBlock for an empty chain)
NoBlock == [index |-> -1]
get_latest_block(ch) == IF ch = <<>> THEN NoBlock ELSE ch[Len(ch)]

\* Blockchain.add_block, mutated: the link to the tip is not checked
add_block_NoLinkCheck(ch, block) ==
    LET latest_block == get_latest_block(ch)
    IN  IF ch # <<>> /\ block.index = latest_block.index + 1
        THEN [ok |-> TRUE, chain |-> Append(ch, block)]
        ELSE IF ch = <<>> /\ block.index = 0
        THEN [ok |-> TRUE, chain |-> Append(ch, block)]
        ELSE [ok |-> FALSE, chain |-> ch]

\* Blockchain.add_block: the new chain and the value returned
add_block(ch, block) ==
    LET latest_block == get_latest_block(ch)
    IN  IF ch # <<>> /\ block.previous_hash = latest_block.hash
                     /\ block.index = latest_block.index + 1
        THEN [ok |-> TRUE, chain |-> Append(ch, block)]
        ELSE IF ch = <<>> /\ block.index = 0
        THEN [ok |-> TRUE, chain |-> Append(ch, block)]
        ELSE [ok |-> FALSE, chain |-> ch]

\* Blockchain.is_chain_valid, mutated: stored hashes are trusted
is_chain_valid_NoHashCheck(target_chain) ==
    /\ target_chain # <<>>
    /\ target_chain[1].index = 0
    /\ target_chain[1].previous_hash = ZeroHash
    /\ \A i \in 2..Len(target_chain) :
          /\ target_chain[i].previous_hash = target_chain[i-1].hash
          /\ target_chain[i].index = target_chain[i-1].index + 1

\* Blockchain.is_chain_valid
is_chain_valid(target_chain) ==
    /\ target_chain # <<>>
    /\ target_chain[1].index = 0
    /\ target_chain[1].previous_hash = ZeroHash
    /\ target_chain[1].hash = calculate_hash(target_chain[1])
    /\ \A i \in 2..Len(target_chain) :
          /\ target_chain[i].hash = calculate_hash(target_chain[i])
          /\ target_chain[i].previous_hash = target_chain[i-1].hash
          /\ target_chain[i].index = target_chain[i-1].index + 1

---------------------------------------------------------------------------
(* node_common.py: balance and ledger logic *)

IsTransfer(tx) == Get(tx, "type", None) = TX_TRANSFER_ECASH

\* balances[sender] -= amount; balances[recipient] += amount
ApplyTransfer(bal, tx) ==
    LET sender == Get(tx, "from", None)
        recipient == Get(tx, "to", None)
        amount == Get(tx, "amount", 0)
        debited == [bal EXCEPT ![sender] = @ - amount]
    IN  [debited EXCEPT ![recipient] = @ + amount]

\* the inner loop of every replay: the transfers of one block, in order
RECURSIVE ApplyTxs(_, _)
ApplyTxs(bal, txs) ==
    IF txs = <<>> THEN bal
    ELSE ApplyTxs(IF IsTransfer(Head(txs)) THEN ApplyTransfer(bal, Head(txs))
                  ELSE bal,
                  Tail(txs))

\* {user: 0 for user in USERS} plus the system account's allocation; a key
\* that is absent reads as 0 (dict.get(k, 0), or created at 0 on first use)
InitialBalances ==
    [p \in Principals |->
        IF p = SYSTEM_ACCOUNT THEN INITIAL_SYSTEM_BALANCE ELSE 0]

RECURSIVE ReplayBlocks(_, _)
ReplayBlocks(bal, blocks) ==
    IF blocks = <<>> THEN bal
    ELSE ReplayBlocks(ApplyTxs(bal, Head(blocks).transactions), Tail(blocks))

\* Node._get_balances_from_chain
get_balances_from_chain(ch) == ReplayBlocks(InitialBalances, ch)

\* Node.get_current_balance
get_current_balance(ch, username) == get_balances_from_chain(ch)[username]

\* Node._recalculate_all_balances: the new value of E_CASH_BALANCES
recalculate_all_balances(ch) == ReplayBlocks(InitialBalances, ch)

\* Node.get_balances_up_to_block: replay until the block with that hash,
\* inclusive (the whole chain when no block has it)
RECURSIVE ReplayUpTo(_, _, _)
ReplayUpTo(bal, blocks, block_hash) ==
    IF blocks = <<>> THEN bal
    ELSE LET next == ApplyTxs(bal, Head(blocks).transactions)
         IN  IF Head(blocks).hash = block_hash THEN next
             ELSE ReplayUpTo(next, Tail(blocks), block_hash)

get_balances_up_to_block(ch, block_hash) ==
    ReplayUpTo(InitialBalances, ch, block_hash)

\* the affordability test made on one transfer
Unaffordable(bal, tx) ==
    LET sender == Get(tx, "from", None)
        amount == Get(tx, "amount", 0)
    IN  sender # SYSTEM_ACCOUNT /\ bal[sender] < amount

\* the affordability loop, mutated: every block passes
BlockTransfersAffordable_Always(temp_balances, txs) == TRUE

\* Node._process_message, NEW_BLOCK: the loop over data.transactions
RECURSIVE BlockTransfersAffordable(_, _)
BlockTransfersAffordable(temp_balances, txs) ==
    IF txs = <<>> THEN TRUE
    ELSE IF IsTransfer(Head(txs))
    THEN IF Unaffordable(temp_balances, Head(txs)) THEN FALSE
         ELSE BlockTransfersAffordable(
                  ApplyTransfer(temp_balances, Head(txs)), Tail(txs))
    ELSE BlockTransfersAffordable(temp_balances, Tail(txs))

\* Node._validate_chain_balances: the loop over one block's transactions;
\* the balances after the block, or Invalid
Invalid == [invalid |-> TRUE]
RECURSIVE ValidateBlock(_, _)
ValidateBlock(current_block_balances, txs) ==
    IF txs = <<>> THEN current_block_balances
    ELSE IF IsTransfer(Head(txs))
    THEN IF Unaffordable(current_block_balances, Head(txs)) THEN Invalid
         ELSE ValidateBlock(
                  ApplyTransfer(current_block_balances, Head(txs)), Tail(txs))
    ELSE ValidateBlock(current_block_balances, Tail(txs))

RECURSIVE ValidateBlocks(_, _)
ValidateBlocks(temp_balances, blocks) ==
    IF blocks = <<>> THEN TRUE
    ELSE LET after == ValidateBlock(temp_balances, Head(blocks).transactions)
         IN  IF "invalid" \in DOMAIN after THEN FALSE
             ELSE ValidateBlocks(after, Tail(blocks))

\* Node._validate_chain_balances, mutated: every chain passes
validate_chain_balances_Skipped(ch) == TRUE

\* Node._validate_chain_balances
validate_chain_balances(ch) == ValidateBlocks(InitialBalances, ch)

---------------------------------------------------------------------------
(* Canonical encoding and the pending pool *)

\* json.dumps(tx, sort_keys=True): the key/value pairs, whatever the order
\* the dict was built in
canonical(tx) == {<<k, tx[k]>> : k \in DOMAIN tx}

Range(seq) == {seq[i] : i \in 1..Len(seq)}

\* any(json.dumps(tx, sort_keys=True) == tx_repr for tx in pending), mutated:
\* the pool is not searched
InPool_Never(pool, data) == FALSE

\* any(json.dumps(tx, sort_keys=True) == tx_repr for tx in pending)
InPool(pool, data) ==
    \E i \in 1..Len(pool) : canonical(pool[i]) = canonical(data)

\* [tx for tx in pending if json.dumps(tx, sort_keys=True) not in ids]
RECURSIVE Purge(_, _)
Purge(pool, ids) ==
    IF pool = <<>> THEN <<>>
    ELSE IF canonical(Head(pool)) \in ids THEN Purge(Tail(pool), ids)
    ELSE <<Head(pool)>> \o Purge(Tail(pool), ids)

\* Node._reconcile_pending_transactions
reconcile_pending_transactions(pool, ch) ==
    LET all_tx_in_chain ==
            UNION {{canonical(tx) : tx \in Range(ch[i].transactions)} :
                      i \in 1..Len(ch)}
    IN  Purge(pool, all_tx_in_chain)

\* the shape test of add_transaction_local and of NEW_TRANSACTION (every
\* amount of the model is an int)
TxShapeValid(data) ==
    /\ "type" \in DOMAIN data
    /\ data.type = TX_TRANSFER_ECASH =>
          /\ {"from", "to", "amount"} \subseteq DOMAIN data
          /\ data.amount > 0

\* add_transaction_local, mutated: the sender's balance is not looked at
LocalBalanceTooLow_Never(ch, transaction) == FALSE

\* add_transaction_local: sender_balance < transaction['amount']
LocalBalanceTooLow(ch, transaction) ==
    get_current_balance(ch, transaction.from) < transaction.amount

---------------------------------------------------------------------------
(* What the shell and the peers submit *)

TxRegistration ==
    [type |-> "PATIENT_REGISTRATION", patient_id |-> "p1",
     patient_name |-> "Pat", registered_by |-> "dr_alice", timestamp |-> 1]
\* the same registration, built by a caller that sets no timestamp
TxUnstamped ==
    [type |-> "PATIENT_REGISTRATION", patient_id |-> "p1",
     patient_name |-> "Pat", registered_by |-> "dr_alice"]
TxReward ==
    [type |-> TX_TRANSFER_ECASH, from |-> SYSTEM_ACCOUNT, to |-> "dr_alice",
     amount |-> 100, timestamp |-> 1]
TxPay ==
    [type |-> TX_TRANSFER_ECASH, from |-> "dr_alice", to |-> "lab_tech_bob",
     amount |-> 100, timestamp |-> 1]
TxNegative ==
    [type |-> TX_TRANSFER_ECASH, from |-> "dr_alice", to |-> "lab_tech_bob",
     amount |-> -100, timestamp |-> 1]
TxNoAmount ==
    [type |-> TX_TRANSFER_ECASH, from |-> "dr_alice", to |-> "lab_tech_bob",
     timestamp |-> 1]
TxNoType == [details |-> "no type", timestamp |-> 1]

\* the records of a consultation that orders a test, of the result of the
\* test, of a prescription and of its filling (doctor_consultation,
\* perform_blood_test, doctor_review_results_and_prescribe,
\* pharmacy_fill_prescription)
TxConsultation ==
    [type |-> "DOCTOR_CONSULTATION", patient_id |-> "p1", doctor |-> "dr_alice",
     notes |-> "n", tests_ordered |-> <<"Blood Test">>, timestamp |-> 2]
TxLabResult ==
    [type |-> "LAB_TEST_RESULT", patient_id |-> "p1", test_name |-> "Blood Test",
     performed_by |-> "lab_tech_bob", results |-> "r", timestamp |-> 3]
TxPrescription ==
    [type |-> "PRESCRIPTION", patient_id |-> "p1", prescribed_by |-> "dr_alice",
     based_on_review_of_test_by |-> "lab_tech_bob", timestamp |-> 4]
TxFilled ==
    [type |-> "PRESCRIPTION_FILLED", patient_id |-> "p1",
     filled_by_pharmacy |-> "pharm_charlie",
     references_prescription_timestamp |-> TxPrescription.timestamp,
     timestamp |-> 5]

SubmittedTxs ==
    {TxRegistration, TxUnstamped, TxReward, TxPay, TxNegative, TxNoAmount,
     TxNoType}

\* the transaction lists of the blocks peers build
BlockTxChoices ==
    {<<TxRegistration, TxReward>>, <<TxPay>>, <<TxNegative>>}

\* the transaction lists of the blocks that earn a doctor a reward
RewardBlockTxs ==
    {<<TxConsultation, TxLabResult>>, <<TxPrescription, TxFilled>>}

\* datetime.now() of this node at construction, and of another node
OwnStart == 0
GenesisTimes == {OwnStart, 9}
\* datetime.now() when a peer builds a block, and when the shell stamps a
\* transaction
BlockTimes == {5}
NowTimes == {1}

\* a peer's block on top of chain ch
Extend(ch, txs, ts) ==
    Append(ch, Block(ch[Len(ch)].index + 1, ts, txs, ch[Len(ch)].hash, 0))

RECURSIVE ChainsOfLen(_)
ChainsOfLen(n) ==
    IF n = 1 THEN {<<create_genesis_block(g)>> : g \in GenesisTimes}
    ELSE {Extend(c, txs, ts) :
            c \in ChainsOfLen(n - 1), txs \in BlockTxChoices, ts \in BlockTimes}

\* the chains honest peers can hold
HonestChains == UNION {ChainsOfLen(n) : n \in 1..MaxChainLen}

\* block i of chain c rebuilt with a wrong field, or with its stored hash
\* overwritten
Corrupt(c, i, how) ==
    LET b == c[i]
    IN  CASE how = "hash" -> [c EXCEPT ![i].hash = BadHash]
          [] how = "index" ->
                [c EXCEPT ![i] = Block(b.index + 1, b.timestamp,
                                       b.transactions, b.previous_hash, b.nonce)]
          [] how = "previous_hash" ->
                [c EXCEPT ![i] = Block(b.index, b.timestamp, b.transactions,
                                       BadHash, b.nonce)]

\* the chains whose blocks all carry the first transaction list
PlainChains ==
    {c \in HonestChains :
        \A i \in 2..Len(c) : c[i].transactions = <<TxRegistration, TxReward>>}

\* every list of blocks a SEND_CHAIN message carries
ReceivedChains ==
    HonestChains
    \cup {Corrupt(c, i, how) :
            <<c, i, how>> \in {<<c, i, how>> \in
                PlainChains \X (1..MaxChainLen) \X {"hash", "index", "previous_hash"} :
                    i \in {1, Len(c)}}}
    \cup {<<>>}

\* every Block a NEW_BLOCK message carries when the node holds chain ch:
\* the next block with each transaction list, and blocks that are stale,
\* ahead, on another branch, or carry a wrong stored hash
ReceivedBlocks(ch) ==
    LET tip == get_latest_block(ch)
        plain == <<TxRegistration, TxReward>>
    IN  {Block(tip.index + 1, ts, txs, tip.hash, 0) :
            <<ts, txs>> \in BlockTimes \X (BlockTxChoices \cup RewardBlockTxs)}
        \cup {[Block(tip.index + 1, ts, plain, tip.hash, 0)
                  EXCEPT !.hash = BadHash] : ts \in BlockTimes}
        \cup {Block(tip.index + d, ts, plain, tip.hash, 0) :
                <<ts, d>> \in BlockTimes \X {0, 2}}
        \cup {Block(tip.index + 1, ts, plain, p, 0) :
                <<ts, p>> \in BlockTimes \X {ZeroHash, BadHash}}

---------------------------------------------------------------------------
(* Threads *)

Shell == "shell"
PeerAddrs == {"peer1", "peer2"}
Threads == {Shell} \cup PeerAddrs
\* the nodes at the far end of the connections, and the ways the accept
\* loop and the connector can tie connections to them: the registry is
\* keyed by the address of the connection (the remote ephemeral address of
\* an accepted one, the configured address of an outbound one), so two
\* entries can lead to one node
RemoteNodes == {"node_b", "node_c"}
Topologies == [PeerAddrs -> RemoteNodes]
NoThread == "none"
\* what a thread has in hand: a transaction, a block or a list of blocks
NoTx == [none |-> TRUE]
NoMsg == [tx |-> NoTx, block |-> NoBlock, chain |-> <<>>]
TxMsg(tx) == [NoMsg EXCEPT !.tx = tx]
BlockMsg(block) == [NoMsg EXCEPT !.block = block]
ChainMsg(ch) == [NoMsg EXCEPT !.chain = ch]

\* Node.broadcast: one message per live peer, the excluded one left out.
\* A message records in its field lock the thread that holds the node lock
\* while send_message runs.
broadcast(msg_type, data, exclude_addr) ==
    {[type |-> msg_type, data |-> data, to |-> addr, lock |-> NoThread] :
        addr \in peers \ {exclude_addr}}

\* the messages msgs, sent inside the `with self.lock` of thread t
UnderLock(t, msgs) == {[m EXCEPT !.lock = t] : m \in msgs}

\* the long-running tasks of the node besides the receive loops:
\* _listen_for_connections and _connect_to_peers_periodically
Tasks == {"accept", "connector"}

\* the connections one remote address makes, one after the other
Connections == {1, 2}

\* A value on its way through a connection: its message type, what it is,
\* the number of bytes of its payload, and whether the payload is the pickle
\* of a value ("no": it is) or bytes that are no pickle.
NoValue == [type |-> 0, data |-> "none", pickled |-> 0, malformed |-> "no"]
\* bytes lo..hi of the payload of value `of`; no bytes when lo > hi
NoBytes == [of |-> NoValue, lo |-> 1, hi |-> 0]
Size(bytes) == IF bytes.hi < bytes.lo THEN 0 ELSE bytes.hi - bytes.lo + 1
\* a connection on which no frame is in flight
NoFrame == [sent |-> NoValue, header |-> <<>>, body |-> NoBytes]
\* _handle_connection at the top of its loop: nothing read yet
NoMessage == [type |-> 0, data |-> "none"]
NoLocals == [phase |-> "header", msg_len |-> 0, msg_type |-> 0,
             data |-> NoBytes, bytes_recd |-> 0, message |-> NoMessage]

\* a thread goes on to program point p with message m in hand
Goto(t, p, m) ==
    /\ pc' = [pc EXCEPT ![t] = p]
    /\ cur' = [cur EXCEPT ![t] = m]

\* a handler or call of thread t returns
Return(t) == Goto(t, "idle", NoMsg)

Init ==
    /\ chain = <<create_genesis_block(OwnStart)>>
    /\ pending = <<>>
    /\ ledger = recalculate_all_balances(<<create_genesis_block(OwnStart)>>)
    /\ lock = NoThread
    /\ peers = {}
    /\ pc = [t \in Threads |-> IF t = Shell THEN "idle" ELSE "closed"]
    /\ cur = [t \in Threads |-> NoMsg]
    /\ result = "initialized"
    /\ sent = {}
    /\ sock = [addr \in PeerAddrs |-> "none"]
    /\ wire = [addr \in PeerAddrs |-> NoFrame]
    /\ rx = [addr \in PeerAddrs |-> NoLocals]
    /\ stop_event = FALSE
    /\ server_socket = "listening"
    /\ tasks = [k \in Tasks |-> "running"]
    /\ registry = [addr \in PeerAddrs |-> 0]
    /\ loops = [addr \in PeerAddrs |-> [c \in Connections |-> "none"]]

---------------------------------------------------------------------------
(* Peer manager *)

\* _listen_for_connections / _connect_to_peer: the connection is registered
\* and its receive loop started
Connect(addr) ==
    /\ pc[addr] = "closed"
    /\ peers' = peers \cup {addr}
    /\ Goto(addr, "idle", NoMsg)
    /\ result' = "connected"
    /\ sent' = {}
    /\ UNCHANGED <<chain, pending, ledger, lock>>

\* _handle_connection: recv fails or returns nothing; the loop is left, the
\* peer deregistered and the socket closed
Disconnect(addr) ==
    /\ pc[addr] = "idle"
    /\ peers' = peers \ {addr}
    /\ Goto(addr, "closed", NoMsg)
    /\ result' = "disconnected"
    /\ sent' = {}
    /\ UNCHANGED <<chain, pending, ledger, lock>>

---------------------------------------------------------------------------
(* Node._process_message *)

\* NEW_TRANSACTION.  The shape test needs no lock; the rest runs under the
\* lock.  For a transfer of a user, get_current_balance asks for the lock
\* again while the handler holds it: the thread stays there.
RecvNewTransaction(t, data) ==
    /\ pc[t] = "idle"
    /\ Len(pending) < MaxPending
    /\ IF ~TxShapeValid(data)
       THEN /\ result' = "tx_invalid"
            /\ sent' = {}
            /\ UNCHANGED <<chain, pending, ledger, lock, peers, pc, cur>>
       ELSE /\ lock = NoThread
            /\ IF InPool(pending, data)
               THEN /\ result' = "tx_duplicate"
                    /\ sent' = {}
                    /\ UNCHANGED <<chain, pending, ledger, lock, peers, pc, cur>>
               ELSE IF data.type = TX_TRANSFER_ECASH /\ data.from # SYSTEM_ACCOUNT
               THEN /\ lock' = t
                    /\ Goto(t, "nt_get_current_balance", TxMsg(data))
                    /\ result' = "tx_balance_lookup"
                    /\ sent' = {}
                    /\ UNCHANGED <<chain, pending, ledger, peers>>
               ELSE /\ pending' = Append(pending, data)
                    /\ sent' = UnderLock(t,
                          broadcast(MSG_TYPE_NEW_TRANSACTION, TxMsg(data), t))
                    /\ result' = "tx_added"
                    /\ UNCHANGED <<chain, ledger, lock, peers, pc, cur>>

\* NEW_BLOCK, the tests made on the block itself, mutated: the stored hash
\* is trusted
NewBlockCheck_TrustsHash(ch, data) ==
    LET latest_block == get_latest_block(ch)
        expected_index == IF ch = <<>> THEN 0 ELSE latest_block.index + 1
    IN  IF data.index # expected_index THEN "block_bad_index"
        ELSE IF ch # <<>> /\ data.previous_hash # latest_block.hash
        THEN "block_resync"
        ELSE "block_balances"

\* NEW_BLOCK, the tests made on the block itself, mutated: a wrong
\* previous_hash is a plain rejection
NewBlockCheck_NoResync(ch, data) ==
    LET latest_block == get_latest_block(ch)
        expected_index == IF ch = <<>> THEN 0 ELSE latest_block.index + 1
    IN  IF data.index # expected_index THEN "block_bad_index"
        ELSE IF ch # <<>> /\ data.previous_hash # latest_block.hash
        THEN "block_bad_hash"
        ELSE IF data.hash # calculate_hash(data) THEN "block_bad_hash"
        ELSE "block_balances"

\* NEW_BLOCK, the tests made on the block itself: the branch taken
NewBlockCheck(ch, data) ==
    LET latest_block == get_latest_block(ch)
        expected_index == IF ch = <<>> THEN 0 ELSE latest_block.index + 1
    IN  IF data.index # expected_index THEN "block_bad_index"
        ELSE IF ch # <<>> /\ data.previous_hash # latest_block.hash
        THEN "block_resync"
        ELSE IF data.hash # calculate_hash(data) THEN "block_bad_hash"
        ELSE "block_balances"

\* NEW_BLOCK, validation: no lock is held but the one get_balances_up_to_block
\* takes and releases; a previous-hash mismatch asks the peers for their chain.
RecvNewBlock(t, data) ==
    /\ pc[t] = "idle"
    /\ LET branch == NewBlockCheck(chain, data)
       IN  IF branch = "block_resync"
           THEN /\ sent' = broadcast(MSG_TYPE_REQUEST_CHAIN, NoMsg, None)
                /\ result' = branch
                /\ UNCHANGED <<chain, pending, ledger, lock, peers, pc, cur>>
           ELSE IF branch # "block_balances"
           THEN /\ sent' = {}
                /\ result' = branch
                /\ UNCHANGED <<chain, pending, ledger, lock, peers, pc, cur>>
           ELSE /\ lock = NoThread
                /\ sent' = {}
                /\ UNCHANGED <<chain, pending, ledger, lock, peers>>
                /\ IF BlockTransfersAffordable(
                          get_balances_up_to_block(chain, data.previous_hash),
                          data.transactions)
                   THEN /\ Goto(t, "nb_lock", BlockMsg(data))
                        /\ result' = "block_validated"
                   ELSE /\ result' = "block_unaffordable"
                        /\ UNCHANGED <<pc, cur>>

\* NEW_BLOCK, the append, mutated: the handler neither waits for the lock
\* nor looks at the tip again before it appends the block it validated
AcceptNewBlock_NoRecheck(t) ==
    /\ pc[t] = "nb_lock"
    /\ sent' = {}
    /\ chain' = Append(chain, cur[t].block)
    /\ pending' = Purge(pending,
                    {canonical(tx) : tx \in Range(cur[t].block.transactions)})
    /\ Goto(t, "nb_update_balances_from_block", cur[t])
    /\ result' = "block_appended"
    /\ UNCHANGED <<ledger, lock, peers>>

\* NEW_BLOCK, the append under the lock.  After add_block and the purge of
\* the pool, _update_balances_from_block asks for the lock the handler
\* holds: the thread stays there, the ledger is not updated.
AcceptNewBlock(t) ==
    /\ pc[t] = "nb_lock"
    /\ lock = NoThread
    /\ sent' = {}
    /\ LET data == cur[t].block
           current_latest == get_latest_block(chain)
       IN  IF \/ chain = <<>> /\ data.index = 0
              \/ /\ chain # <<>>
                 /\ data.previous_hash = current_latest.hash
                 /\ data.index = current_latest.index + 1
           THEN /\ chain' = add_block(chain, data).chain
                /\ pending' = Purge(pending,
                                {canonical(tx) : tx \in Range(data.transactions)})
                /\ lock' = t
                /\ Goto(t, "nb_update_balances_from_block", BlockMsg(data))
                /\ result' = "block_appended"
                /\ UNCHANGED <<ledger, peers>>
           ELSE /\ Return(t)
                /\ result' = "block_stale"
                /\ UNCHANGED <<chain, pending, ledger, lock, peers>>

\* REQUEST_CHAIN: the chain is sent to the asking socket, under the lock
RecvRequestChain(t) ==
    /\ pc[t] = "idle"
    /\ lock = NoThread
    /\ sent' = {[type |-> MSG_TYPE_SEND_CHAIN, data |-> ChainMsg(chain), to |-> t,
                 lock |-> t]}
    /\ result' = "chain_sent"
    /\ UNCHANGED <<chain, pending, ledger, lock, peers, pc, cur>>

\* SEND_CHAIN: resolve_conflicts takes the lock
RecvSendChain(t, received_chain) ==
    /\ pc[t] = "idle"
    /\ lock = NoThread
    /\ lock' = t
    /\ Goto(t, "resolve_conflicts", ChainMsg(received_chain))
    /\ result' = "chain_received"
    /\ sent' = {}
    /\ UNCHANGED <<chain, pending, ledger, peers>>

\* resolve_conflicts, the test for replacement, mutated: a chain of the
\* same length replaces too
ShouldReplace_NotShorter(ch, received_chain) ==
    /\ Len(received_chain) >= Len(ch)
    /\ is_chain_valid(received_chain)
    /\ validate_chain_balances(received_chain)

\* resolve_conflicts, the test for replacement, mutated: whatever list is
\* received replaces the chain
ShouldReplace_Always(ch, received_chain) == TRUE

\* resolve_conflicts, the test for replacement
ShouldReplace(ch, received_chain) ==
    /\ Len(received_chain) > Len(ch)
    /\ is_chain_valid(received_chain)
    /\ validate_chain_balances(received_chain)

\* Node.resolve_conflicts, under the lock.  After the replacement and the
\* reconciliation of the pool, _recalculate_all_balances asks for the lock
\* resolve_conflicts holds: the thread stays there, the ledger is not
\* recomputed and nothing is returned.
ResolveConflicts(t) ==
    /\ pc[t] = "resolve_conflicts"
    /\ sent' = {}
    /\ IF ShouldReplace(chain, cur[t].chain)
       THEN /\ chain' = cur[t].chain
            /\ pending' = reconcile_pending_transactions(pending, cur[t].chain)
            /\ Goto(t, "rc_recalculate_all_balances", cur[t])
            /\ result' = "chain_replaced"
            /\ UNCHANGED <<ledger, lock, peers>>
       ELSE /\ lock' = NoThread
            /\ Return(t)
            /\ result' = "chain_not_replaced"
            /\ UNCHANGED <<chain, pending, ledger, peers>>

---------------------------------------------------------------------------
(* The calls of the command shell *)

\* Node.add_transaction_local up to the lock: shape, balance of the sender
\* (get_current_balance takes and releases the lock), timestamp
ShellAddTransaction(transaction, now) ==
    /\ pc[Shell] = "idle"
    /\ Len(pending) < MaxPending
    /\ sent' = {}
    /\ UNCHANGED <<chain, pending, ledger, lock, peers>>
    /\ LET stamped == IF "timestamp" \in DOMAIN transaction THEN transaction
                      ELSE transaction @@ [timestamp |-> now]
       IN  IF ~TxShapeValid(transaction)
           THEN /\ result' = "local_invalid"
                /\ UNCHANGED <<pc, cur>>
           ELSE IF /\ transaction.type = TX_TRANSFER_ECASH
                   /\ transaction.from # SYSTEM_ACCOUNT
           THEN /\ lock = NoThread
                /\ IF LocalBalanceTooLow(chain, transaction)
                   THEN /\ result' = "local_insufficient"
                        /\ UNCHANGED <<pc, cur>>
                   ELSE /\ result' = "local_checked"
                        /\ Goto(Shell, "atl_lock", TxMsg(stamped))
           ELSE /\ result' = "local_checked"
                /\ Goto(Shell, "atl_lock", TxMsg(stamped))

\* Node.add_transaction_local under the lock: deduplication, append, gossip
AddTransactionLocked ==
    /\ pc[Shell] = "atl_lock"
    /\ lock = NoThread
    /\ Return(Shell)
    /\ UNCHANGED <<chain, ledger, lock, peers>>
    /\ IF InPool(pending, cur[Shell].tx)
       THEN /\ result' = "local_duplicate"
            /\ sent' = {}
            /\ UNCHANGED pending
       ELSE /\ pending' = Append(pending, cur[Shell].tx)
            /\ sent' = UnderLock(Shell,
                          broadcast(MSG_TYPE_NEW_TRANSACTION, cur[Shell], None))
            /\ result' = "local_added"

\* Node.mine_block_local, mutated: the test for an empty pool is left out
MineBlockLocal_NoEmptyTest ==
    /\ pc[Shell] = "idle"
    /\ lock = NoThread
    /\ sent' = {}
    /\ UNCHANGED <<chain, pending, ledger, peers>>
    /\ lock' = Shell
    /\ Goto(Shell, "mine_get_balances_up_to_block", NoMsg)
    /\ result' = "mining"

\* Node.mine_block_local.  With a pool that is not empty, the call to
\* get_balances_up_to_block asks for the lock mine_block_local holds: the
\* shell stays there.
MineBlockLocal ==
    /\ pc[Shell] = "idle"
    /\ lock = NoThread
    /\ sent' = {}
    /\ UNCHANGED <<chain, pending, ledger, peers>>
    /\ IF pending = <<>>
       THEN /\ result' = "nothing_to_mine"
            /\ UNCHANGED <<lock, pc, cur>>
       ELSE IF chain = <<>>
       THEN /\ result' = "no_genesis"
            /\ UNCHANGED <<lock, pc, cur>>
       ELSE /\ lock' = Shell
            /\ Goto(Shell, "mine_get_balances_up_to_block", NoMsg)
            /\ result' = "mining"

\* Node.request_chain_from_peers
RequestChainFromPeers ==
    /\ pc[Shell] = "idle"
    /\ sent' = broadcast(MSG_TYPE_REQUEST_CHAIN, NoMsg, None)
    /\ result' = "sync_requested"
    /\ UNCHANGED <<chain, pending, ledger, lock, peers, pc, cur>>

\* Node._recalculate_all_balances, called from the shell
RecalculateAllBalances ==
    /\ pc[Shell] = "idle"
    /\ lock = NoThread
    /\ ledger' = recalculate_all_balances(chain)
    /\ sent' = {}
    /\ result' = "recalculated"
    /\ UNCHANGED <<chain, pending, lock, peers, pc, cur>>

\* Node.view_balances
ViewBalances ==
    /\ pc[Shell] = "idle"
    /\ lock = NoThread
    /\ sent' = {}
    /\ result' = "balances_viewed"
    /\ UNCHANGED <<chain, pending, ledger, lock, peers, pc, cur>>

---------------------------------------------------------------------------
(* The node *)

\* The node with its connections taken as given: a message is in the hands
\* of its handler as soon as it arrives, and the sockets, the streams and
\* the shutdown flag stay as they are.
Next ==
    \/ \E addr \in PeerAddrs : Connect(addr) /\ UNCHANGED netvars
    \/ \E addr \in PeerAddrs : Disconnect(addr) /\ UNCHANGED netvars
    \/ \E t \in PeerAddrs, data \in SubmittedTxs : RecvNewTransaction(t, data) /\ UNCHANGED netvars
    \/ \E t \in PeerAddrs : \E data \in ReceivedBlocks(chain) : RecvNewBlock(t, data) /\ UNCHANGED netvars
    \/ \E t \in PeerAddrs : AcceptNewBlock(t) /\ UNCHANGED netvars
    \/ \E t \in PeerAddrs : RecvRequestChain(t) /\ UNCHANGED netvars
    \/ \E t \in PeerAddrs, c \in ReceivedChains : RecvSendChain(t, c) /\ UNCHANGED netvars
    \/ \E t \in PeerAddrs : ResolveConflicts(t) /\ UNCHANGED netvars
    \/ \E tx \in SubmittedTxs, now \in NowTimes : ShellAddTransaction(tx, now) /\ UNCHANGED netvars
    \/ AddTransactionLocked /\ UNCHANGED netvars
    \/ MineBlockLocal /\ UNCHANGED netvars
    \/ RequestChainFromPeers /\ UNCHANGED netvars
    \/ RecalculateAllBalances /\ UNCHANGED netvars
    \/ ViewBalances /\ UNCHANGED netvars

Spec == Init /\ [][Next]_vars

\* what a thread does once it is in a handler or a call: the scheduler runs
\* every thread that can run
Step(t) ==
    \/ t \in PeerAddrs /\ AcceptNewBlock(t) /\ UNCHANGED netvars
    \/ t \in PeerAddrs /\ ResolveConflicts(t) /\ UNCHANGED netvars
    \/ t = Shell /\ AddTransactionLocked /\ UNCHANGED netvars

LiveSpec == Spec /\ \A t \in Threads : WF_vars(Step(t))

---------------------------------------------------------------------------
(* The Blockchain class alone: a chain that starts from the auto-created   *)
(* genesis and is offered blocks through add_block                         *)

\* the blocks a caller may offer: right or wrong index, link and stored hash
OfferedBlocks(ch) ==
    LET tip == get_latest_block(ch)
        built == {Block(tip.index + d, ts, txs, p, 0) :
                    <<d, ts, txs, p>> \in {0, 1} \X BlockTimes \X BlockTxChoices
                        \X {tip.hash, BadHash}}
    IN  built \cup {[b EXCEPT !.hash = BadHash] : b \in built}

AddBlock(block) ==
    /\ Len(chain) <= MaxChainLen
    /\ chain' = add_block(chain, block).chain
    /\ result' = IF add_block(chain, block).ok THEN "add_block_true"
                 ELSE "add_block_false"
    /\ UNCHANGED <<pending, ledger, lock, peers, pc, cur, sent>>

NextChain ==
    \E block \in OfferedBlocks(chain) : AddBlock(block) /\ UNCHANGED netvars

SpecChain == Init /\ [][NextChain]_vars

---------------------------------------------------------------------------
(* Admission alone: the two ways into the pending pool, with every kind of *)
(* dict a caller or a peer can hand in                                     *)

\* a dict equal to the transaction of the genesis block
TxGenesis == [type |-> "genesis", details |-> "The beginning"]
\* a dict whose type is none of the types the workflows create
TxUnknown == [type |-> "UNKNOWN", timestamp |-> 1]

AdmissionTxs == SubmittedTxs \cup {TxGenesis, TxUnknown}

NextAdmission ==
    \/ \E addr \in PeerAddrs : Connect(addr) /\ UNCHANGED netvars
    \/ \E t \in PeerAddrs, data \in AdmissionTxs : RecvNewTransaction(t, data) /\ UNCHANGED netvars
    \/ \E tx \in AdmissionTxs, now \in NowTimes : ShellAddTransaction(tx, now) /\ UNCHANGED netvars
    \/ AddTransactionLocked /\ UNCHANGED netvars

SpecAdmission == Init /\ [][NextAdmission]_vars

---------------------------------------------------------------------------
(* The wire protocol alone: a peer that runs send_message writes frames    *)
(* into a connection, and the receive loop of the connection reads them    *)
(* back, in as many reads as the transport takes                           *)

Min(a, b) == IF a < b THEN a ELSE b

\* int.to_bytes(length, byteorder='big') raises OverflowError unless Fits
Fits(n, length) == n < 256 ^ length
to_bytes(n, length) ==
    [i \in 1..length |-> (n \div (256 ^ (length - i))) % 256]

\* int.from_bytes, mutated: the first byte is the least significant one
from_bytes_little(bytes) ==
    LET RECURSIVE value(_)
        value(k) == IF k = 0 THEN 0 ELSE value(k - 1) + bytes[k] * 256 ^ (k - 1)
    IN  value(Len(bytes))

\* int.from_bytes(bytes, byteorder='big')
from_bytes(bytes) ==
    LET RECURSIVE value(_)
        value(k) == IF k = 0 THEN 0 ELSE value(k - 1) * 256 + bytes[k]
    IN  value(Len(bytes))

\* The values peers write, one or more of every message type, with payloads
\* of one, two and three significant length bytes.  The values of the types
\* NEW_TRANSACTION, NEW_BLOCK and SEND_CHAIN are ones their handlers look
\* at and leave the node as it is: a dict without the key 'type', a block
\* of index 0, a list of one block.
WireValue(type, data, pickled) ==
    [type |-> type, data |-> data, pickled |-> pickled, malformed |-> "no"]
SentValues ==
    { WireValue(MSG_TYPE_NEW_TRANSACTION, "dict_without_type", 60),
      WireValue(MSG_TYPE_NEW_BLOCK, "block_of_index_0", 5000),
      WireValue(MSG_TYPE_REQUEST_CHAIN, "empty_string", 15),
      WireValue(MSG_TYPE_SEND_CHAIN, "list_of_one_block", 300),
      WireValue(MSG_TYPE_REQUEST_PEERS, "empty_string", 15),
      WireValue(MSG_TYPE_SEND_PEERS, "list_of_addresses", 70000) }
\* a list longer than the local chain whose elements are no blocks:
\* is_chain_valid raises AttributeError in resolve_conflicts
ListOfInts == WireValue(MSG_TYPE_SEND_CHAIN, "list_of_ints", 20)
\* a value whose pickle does not fit the three length bytes
Oversized == WireValue(MSG_TYPE_SEND_CHAIN, "list_of_blocks", 256 ^ 3)
\* frames whose payload is no pickle: bytes that start with no opcode, and
\* no bytes at all
Garbage == [WireValue(MSG_TYPE_NEW_TRANSACTION, "garbage", 10)
                EXCEPT !.malformed = "invalid"]
EmptyPayload == [WireValue(MSG_TYPE_NEW_TRANSACTION, "nothing", 0)
                    EXCEPT !.malformed = "empty"]
WireValues == SentValues \cup {ListOfInts, Oversized, Garbage, EmptyPayload}

\* Node.send_message, what sendall writes: header and payload in one call,
\* or nothing when the length does not fit (the OverflowError is printed)
send_message(msg_type, data) ==
    IF Fits(data.pickled, 3) /\ Fits(msg_type, 1)
    THEN [sent |-> data,
          header |-> to_bytes(data.pickled, 3) \o to_bytes(msg_type, 1),
          body |-> [of |-> data, lo |-> 1, hi |-> data.pickled]]
    ELSE NoFrame

\* pickle.loads: the value, or the exception it raises
pickle_loads(bytes) ==
    IF Size(bytes) = 0 THEN "EOFError"
    ELSE IF bytes.of.malformed # "no" THEN "UnpicklingError"
    ELSE IF bytes.lo = 1 /\ bytes.hi = bytes.of.pickled THEN "ok"
    ELSE "UnpicklingError"

\* recv(n) returns what was asked for or, when the transport has delivered
\* less so far, fewer bytes
ShortRead(n) == (n + 1) \div 2
Reads(n) == {n, ShortRead(n)}

\* what recv(MSG_HEADER_LENGTH) can return at most
HeaderBytes(addr) == Min(MSG_HEADER_LENGTH, Len(wire[addr].header))
\* what recv(min(msg_len - bytes_recd, MSG_BUFFER_SIZE)) can return at most
PayloadBytes(addr) ==
    Min(Min(rx[addr].msg_len - rx[addr].bytes_recd, MSG_BUFFER_SIZE),
        Size(wire[addr].body))

\* the connection is registered, its socket open and its receive loop started
WireConnect(addr) ==
    /\ Connect(addr)
    /\ sock' = [sock EXCEPT ![addr] = "open"]
    /\ UNCHANGED <<wire, rx, stop_event, server_socket, tasks>>

\* the peer calls send_message on its end of the connection
PeerSends(addr, data) ==
    /\ pc[addr] = "idle"
    /\ sock[addr] = "open"
    /\ rx[addr].phase = "header"
    /\ wire[addr].header = <<>>
    /\ Size(wire[addr].body) = 0
    /\ wire' = [wire EXCEPT ![addr] = send_message(data.type, data)]
    /\ result' = IF Fits(data.pickled, 3) THEN "frame_written" ELSE "send_error"
    /\ sent' = {}
    /\ UNCHANGED <<chain, pending, ledger, lock, peers, pc, cur,
                   sock, rx, stop_event, server_socket, tasks>>

\* _handle_connection after its loop: the peer is deregistered and the
\* socket closed; what was not read is lost
LeaveLoop(addr) ==
    /\ peers' = peers \ {addr}
    /\ Goto(addr, "closed", NoMsg)
    /\ sock' = [sock EXCEPT ![addr] = "closed"]
    /\ rx' = [rx EXCEPT ![addr] = NoLocals]
    /\ wire' = [wire EXCEPT ![addr] = NoFrame]

\* _handle_connection: recv(MSG_HEADER_LENGTH) returns n bytes.  Fewer than
\* MSG_HEADER_LENGTH bytes end the loop; otherwise the header is parsed.
RecvHeader(addr, n) ==
    /\ pc[addr] = "idle"
    /\ rx[addr].phase = "header"
    /\ wire[addr].header # <<>>
    /\ n \in Reads(HeaderBytes(addr))
    /\ sent' = {}
    /\ LET header == SubSeq(wire[addr].header, 1, n)
       IN  IF Len(header) < MSG_HEADER_LENGTH
           THEN /\ LeaveLoop(addr)
                /\ result' = "short_header"
           ELSE /\ rx' = [rx EXCEPT ![addr] =
                    [NoLocals EXCEPT
                        !.phase = "payload",
                        !.msg_len = from_bytes(SubSeq(header, 1, MSG_HEADER_LENGTH - 1)),
                        !.msg_type = from_bytes(SubSeq(header, MSG_HEADER_LENGTH,
                                                       Len(header)))]]
                /\ wire' = [wire EXCEPT ![addr].header = <<>>]
                /\ result' = "header_read"
                /\ UNCHANGED <<peers, pc, cur, sock>>
    /\ UNCHANGED <<chain, pending, ledger, lock, stop_event, server_socket, tasks>>

\* _handle_connection, the inner loop: recv asks for what is missing, at
\* most MSG_BUFFER_SIZE bytes, and gets n of them
RecvChunk(addr, n) ==
    /\ pc[addr] = "idle"
    /\ rx[addr].phase = "payload"
    /\ rx[addr].bytes_recd < rx[addr].msg_len
    /\ Size(wire[addr].body) > 0
    /\ n \in Reads(PayloadBytes(addr))
    /\ LET body == wire[addr].body
           chunk == [body EXCEPT !.hi = body.lo + n - 1]
           data == rx[addr].data
       IN  /\ rx' = [rx EXCEPT
                ![addr].data = IF Size(data) = 0 THEN chunk
                               ELSE [data EXCEPT !.hi = data.hi + n],
                ![addr].bytes_recd = rx[addr].bytes_recd + n]
           /\ wire' = [wire EXCEPT ![addr].body.lo = body.lo + n]
    /\ result' = "chunk_read"
    /\ sent' = {}
    /\ UNCHANGED <<chain, pending, ledger, lock, peers, pc, cur,
                   sock, stop_event, server_socket, tasks>>

\* _handle_connection: the payload is complete and pickle.loads decodes it.
\* UnpicklingError is printed and the loop goes on; any other exception is
\* printed with its traceback and ends the loop.
Decode(addr) ==
    /\ pc[addr] = "idle"
    /\ rx[addr].phase = "payload"
    /\ rx[addr].bytes_recd >= rx[addr].msg_len
    /\ sent' = {}
    /\ CASE pickle_loads(rx[addr].data) = "ok" ->
                /\ rx' = [rx EXCEPT ![addr].message =
                            [type |-> rx[addr].msg_type,
                             data |-> rx[addr].data.of.data]]
                /\ pc' = [pc EXCEPT ![addr] = "process_message"]
                /\ result' = "decoded"
                /\ UNCHANGED <<peers, cur, sock, wire>>
         [] pickle_loads(rx[addr].data) = "UnpicklingError" ->
                /\ rx' = [rx EXCEPT ![addr] = NoLocals]
                /\ result' = "invalid_data"
                /\ UNCHANGED <<peers, pc, cur, sock, wire>>
         [] OTHER ->
                /\ LeaveLoop(addr)
                /\ result' = "decode_error"
    /\ UNCHANGED <<chain, pending, ledger, lock, stop_event, server_socket, tasks>>

\* the call of _process_message raises: resolve_conflicts on a list that is
\* longer than the local chain and holds no blocks
HandlerRaises(message) ==
    /\ message.type = MSG_TYPE_SEND_CHAIN
    /\ message.data = "list_of_ints"

\* _handle_connection: _process_message runs on the decoded message.  The
\* two requests are answered under the lock; an exception of the handler
\* is printed with its traceback and ends the loop.
ProcessMessage(addr) ==
    /\ pc[addr] = "process_message"
    /\ rx[addr].message.type \in {MSG_TYPE_REQUEST_CHAIN, MSG_TYPE_SEND_CHAIN,
                                  MSG_TYPE_REQUEST_PEERS} => lock = NoThread
    /\ IF HandlerRaises(rx[addr].message)
       THEN /\ LeaveLoop(addr)
            /\ sent' = {}
            /\ result' = "handler_error"
       ELSE /\ pc' = [pc EXCEPT ![addr] = "idle"]
            /\ rx' = [rx EXCEPT ![addr] = NoLocals]
            /\ sent' =
                CASE rx[addr].message.type = MSG_TYPE_REQUEST_CHAIN ->
                        {[type |-> MSG_TYPE_SEND_CHAIN, data |-> ChainMsg(chain),
                          to |-> addr, lock |-> addr]}
                  [] rx[addr].message.type = MSG_TYPE_REQUEST_PEERS ->
                        {[type |-> MSG_TYPE_SEND_PEERS, data |-> peers,
                          to |-> addr, lock |-> addr]}
                  [] OTHER -> {}
            /\ result' = "processed"
            /\ UNCHANGED <<peers, cur, sock, wire>>
    /\ UNCHANGED <<chain, pending, ledger, lock, stop_event, server_socket, tasks>>

\* the peer closes the connection when nothing of what it wrote is unread:
\* recv returns no bytes and the loop is left
PeerCloses(addr) ==
    /\ pc[addr] = "idle"
    /\ wire[addr].header = <<>>
    /\ Size(wire[addr].body) = 0
    /\ LeaveLoop(addr)
    /\ result' = "disconnected"
    /\ sent' = {}
    /\ UNCHANGED <<chain, pending, ledger, lock, stop_event, server_socket, tasks>>

NextWire ==
    \/ \E addr \in PeerAddrs : WireConnect(addr) /\ UNCHANGED regvars
    \/ \E addr \in PeerAddrs, data \in WireValues : PeerSends(addr, data) /\ UNCHANGED regvars
    \/ \E addr \in PeerAddrs : \E n \in Reads(HeaderBytes(addr)) : RecvHeader(addr, n) /\ UNCHANGED regvars
    \/ \E addr \in PeerAddrs : \E n \in Reads(PayloadBytes(addr)) : RecvChunk(addr, n) /\ UNCHANGED regvars
    \/ \E addr \in PeerAddrs : Decode(addr) /\ UNCHANGED regvars
    \/ \E addr \in PeerAddrs : ProcessMessage(addr) /\ UNCHANGED regvars
    \/ \E addr \in PeerAddrs : PeerCloses(addr) /\ UNCHANGED regvars

SpecWire == Init /\ [][NextWire]_vars

---------------------------------------------------------------------------
(* The node and its sockets: connections that come, fail and go, sends     *)
(* that fail, chains offered on several connections at once, and shutdown  *)

\* the lists of blocks peers offer here: the plain chains on either
\* genesis, two of them with a wrong stored hash in the last block, and one
\* with a transfer its sender cannot afford
OfferedChains ==
    PlainChains
    \cup {Corrupt(c, Len(c), "hash") : c \in ChainsOfLen(2) \cap PlainChains}
    \cup {Extend(<<create_genesis_block(OwnStart)>>, <<TxPay>>, 5)}

\* the accept loop or the connector registers a connection while the node
\* runs
NetConnect(addr) ==
    /\ ~stop_event
    /\ WireConnect(addr)

\* the far end of a connection goes away: from now on the transport fails
PeerResets(addr) ==
    /\ sock[addr] = "open"
    /\ sock' = [sock EXCEPT ![addr] = "reset"]
    /\ result' = "peer_reset"
    /\ sent' = {}
    /\ UNCHANGED <<chain, pending, ledger, lock, peers, pc, cur,
                   wire, rx, stop_event, server_socket, tasks>>

\* _handle_connection between two messages: recv fails or returns nothing
\* on a socket that is reset or closed, or the loop finds stop_event set;
\* the loop is left
LoopExits(addr) ==
    /\ pc[addr] = "idle"
    /\ sock[addr] # "open" \/ stop_event
    /\ LeaveLoop(addr)
    /\ result' = "disconnected"
    /\ sent' = {}
    /\ UNCHANGED <<chain, pending, ledger, lock, stop_event, server_socket, tasks>>

\* sock.getpeername() in the except clause of send_message: it raises on a
\* socket that is reset (ENOTCONN) or closed (EBADF), and peer_addr stays
\* None
getpeername(addr) == IF sock[addr] = "open" THEN addr ELSE None

\* request_chain_from_peers from the shell, down to the sockets: broadcast
\* calls send_message for every registered peer.  sendall fails on a socket
\* that is not open; send_message then deletes the peer that getpeername
\* names, if it names one of the registry, closes the socket and returns.
BroadcastRequestChain ==
    /\ pc[Shell] = "idle"
    /\ ~stop_event
    /\ LET failed == {addr \in peers : sock[addr] # "open"}
       IN  /\ sent' = {m \in broadcast(MSG_TYPE_REQUEST_CHAIN, NoMsg, None) :
                            m.to \notin failed}
           /\ peers' = peers \ {addr \in failed :
                                    getpeername(addr) # None /\ getpeername(addr) \in peers}
           /\ sock' = [addr \in PeerAddrs |->
                            IF addr \in failed THEN "closed" ELSE sock[addr]]
    /\ result' = "sync_requested"
    /\ UNCHANGED <<chain, pending, ledger, lock, pc, cur,
                   wire, rx, stop_event, server_socket, tasks>>

\* SEND_CHAIN arrives on connection t: _process_message calls
\* resolve_conflicts, which asks for the lock
OfferArrives(t, received_chain) ==
    /\ pc[t] = "idle"
    /\ sock[t] = "open"
    /\ Goto(t, "rc_lock", ChainMsg(received_chain))
    /\ result' = "chain_received"
    /\ sent' = {}
    /\ UNCHANGED <<chain, pending, ledger, lock, peers>>
    /\ UNCHANGED netvars

\* resolve_conflicts: `with self.lock` gets the lock once it is free
TakeLock(t) ==
    /\ pc[t] = "rc_lock"
    /\ lock = NoThread
    /\ lock' = t
    /\ pc' = [pc EXCEPT ![t] = "resolve_conflicts"]
    /\ result' = "lock_taken"
    /\ sent' = {}
    /\ UNCHANGED <<chain, pending, ledger, peers, cur>>
    /\ UNCHANGED netvars

\* Node.stop: the flag is set, the listening socket closed, and every
\* socket of the registry shut down and closed; shutdown raises on a socket
\* that is reset, and its close is skipped
Stop ==
    /\ pc[Shell] = "idle"
    /\ ~stop_event
    /\ stop_event' = TRUE
    /\ server_socket' = "closed"
    /\ sock' = [addr \in PeerAddrs |->
                    IF addr \in peers /\ sock[addr] = "open" THEN "closed"
                    ELSE sock[addr]]
    /\ result' = "stopped"
    /\ sent' = {}
    /\ UNCHANGED <<chain, pending, ledger, lock, peers, pc, cur, wire, rx, tasks>>

\* _listen_for_connections and _connect_to_peers_periodically find
\* stop_event set and return
TaskExits(k) ==
    /\ stop_event
    /\ tasks[k] = "running"
    /\ tasks' = [tasks EXCEPT ![k] = "exited"]
    /\ result' = "task_exited"
    /\ sent' = {}
    /\ UNCHANGED <<chain, pending, ledger, lock, peers, pc, cur,
                   sock, wire, rx, stop_event, server_socket>>

NextNet ==
    \/ \E addr \in PeerAddrs : NetConnect(addr) /\ UNCHANGED regvars
    \/ \E addr \in PeerAddrs : PeerResets(addr) /\ UNCHANGED regvars
    \/ \E addr \in PeerAddrs : LoopExits(addr) /\ UNCHANGED regvars
    \/ BroadcastRequestChain /\ UNCHANGED regvars
    \/ \E t \in PeerAddrs, c \in OfferedChains : OfferArrives(t, c) /\ UNCHANGED regvars
    \/ \E t \in PeerAddrs : TakeLock(t) /\ UNCHANGED regvars
    \/ \E t \in PeerAddrs : ResolveConflicts(t) /\ UNCHANGED netvars
    \/ Stop /\ UNCHANGED regvars
    \/ \E k \in Tasks : TaskExits(k) /\ UNCHANGED regvars

SpecNet == Init /\ [][NextNet]_vars

\* what the threads of the node do without an input: a receive loop leaves
\* when its socket has failed or the flag is set, takes the lock when it is
\* free and goes through resolve_conflicts; the two tasks return
NetStep(t) ==
    \/ LoopExits(t) /\ UNCHANGED regvars
    \/ TakeLock(t) /\ UNCHANGED regvars
    \/ ResolveConflicts(t) /\ UNCHANGED netvars

LiveNet ==
    /\ SpecNet
    /\ \A t \in PeerAddrs : WF_vars(NetStep(t))
    /\ \A k \in Tasks : WF_vars(TaskExits(k) /\ UNCHANGED regvars)

---------------------------------------------------------------------------
(* The peer registry as the dict it is: entries are keyed by address, and  *)
(* one remote address can connect, fail and connect again                  *)

\* what the registry does not touch
nodevars == <<chain, pending, ledger, lock, pc, cur,
              sock, wire, rx, stop_event, server_socket, tasks>>

\* _listen_for_connections: connection c from addr is accepted, which the
\* transport allows once the earlier connection from addr is no longer
\* alive at the far end.  self.peers[addr] = client_socket stores the new
\* socket under the address, over whatever was there, and the receive loop
\* of the connection is started.
Accept(addr, c) ==
    /\ ~stop_event
    /\ loops[addr][c] \in {"none", "exited"}
    /\ \A d \in Connections \ {c} : loops[addr][d] # "running"
    /\ registry' = [registry EXCEPT ![addr] = c]
    /\ loops' = [loops EXCEPT ![addr][c] = "running"]
    /\ peers' = peers \cup {addr}
    /\ result' = "connected"
    /\ sent' = {}
    /\ UNCHANGED nodevars

\* the far end of connection c closes it; the receive loop has not yet
\* returned from the message it handles, or has not been scheduled
RemoteCloses(addr, c) ==
    /\ loops[addr][c] = "running"
    /\ loops' = [loops EXCEPT ![addr][c] = "failed"]
    /\ result' = "peer_reset"
    /\ sent' = {}
    /\ UNCHANGED <<peers, registry>>
    /\ UNCHANGED nodevars

\* _handle_connection of connection c after its loop: recv failed, and
\* `if addr in self.peers: del self.peers[addr]` deletes the entry of the
\* address, whichever socket it holds
LoopLeaves(addr, c) ==
    /\ loops[addr][c] = "failed"
    /\ loops' = [loops EXCEPT ![addr][c] = "exited"]
    /\ registry' = [registry EXCEPT ![addr] = 0]
    /\ peers' = peers \ {addr}
    /\ result' = "disconnected"
    /\ sent' = {}
    /\ UNCHANGED nodevars

NextRegistry ==
    \/ \E addr \in PeerAddrs, c \in Connections : Accept(addr, c)
    \/ \E addr \in PeerAddrs, c \in Connections : RemoteCloses(addr, c)
    \/ \E addr \in PeerAddrs, c \in Connections : LoopLeaves(addr, c)

SpecRegistry == Init /\ [][NextRegistry]_vars

---------------------------------------------------------------------------
(* What the specification says, stated without the operators of the model  *)

\* the chain invariant of the data model
ChainWellFormed(c) ==
    /\ Len(c) >= 1
    /\ c[1].index = 0
    /\ c[1].previous_hash = ZeroHash
    /\ \A i \in 1..Len(c) : c[i].hash = calculate_hash(c[i])
    /\ \A i \in 1..Len(c) : i > 1 =>
          /\ c[i].previous_hash = c[i-1].hash
          /\ c[i].index = c[i-1].index + 1

\* all transactions of a chain, in block order then transaction order
RECURSIVE AllTxs(_)
AllTxs(c) ==
    IF c = <<>> THEN <<>> ELSE Head(c).transactions \o AllTxs(Tail(c))

\* the balances after the first k transactions, from the initial allocation
BalancesAfter(txs, k) == ApplyTxs(InitialBalances, SubSeq(txs, 1, k))

\* every transfer of a user is covered by the user's balance at the point
\* it is applied
TransfersAffordable(c) ==
    LET txs == AllTxs(c)
    IN  \A k \in 1..Len(txs) :
           (IsTransfer(txs[k]) /\ Get(txs[k], "from", None) # SYSTEM_ACCOUNT)
           => BalancesAfter(txs, k - 1)[Get(txs[k], "from", None)]
                 >= Get(txs[k], "amount", 0)

\* a transfer of a user that the user's chain-confirmed balance does not cover
Uncovered(c, tx) ==
    /\ IsTransfer(tx)
    /\ {"from", "amount"} \subseteq DOMAIN tx
    /\ tx.from # SYSTEM_ACCOUNT
    /\ BalancesAfter(AllTxs(c), Len(AllTxs(c)))[tx.from] < tx.amount

\* thread t takes the step of resolve_conflicts that decides on the chain
Resolves(t) == pc[t] = "resolve_conflicts" /\ pc'[t] # "resolve_conflicts"

---------------------------------------------------------------------------
(* The claims *)

\* C1: in every reachable state the chain of the node starts with a
\* correctly hashed genesis block (index 0, previous_hash "0") and every
\* later block links to its predecessor by hash, has the next index and a
\* stored hash equal to the recomputed hash.
C1_ChainInvariant == ChainWellFormed(chain)

\* C1, witness: the chain was replaced by a longer received chain
C1_Witness ==
    /\ Len(chain) = 3
    /\ \E t \in PeerAddrs : pc[t] = "rc_recalculate_all_balances"

\* C2, as claimed: a chain extended from the genesis only by successful
\* add_block calls, whatever block is offered, passes is_chain_valid.
C2_AppendKeepsValid == is_chain_valid(chain)

\* C2, amended: a chain extended from the genesis only by successful
\* add_block calls with blocks whose stored hash is the recomputed hash
\* passes is_chain_valid.
C2_AppendOfHashedBlocksKeepsValid ==
    (\A i \in 1..Len(chain) : chain[i].hash = calculate_hash(chain[i]))
    => is_chain_valid(chain)

\* C2, witness: two correctly hashed blocks were appended
C2_Witness ==
    /\ Len(chain) = 3
    /\ \A i \in 1..Len(chain) : chain[i].hash = calculate_hash(chain[i])
    /\ result = "add_block_true"

\* C3: every call of the shell into the node eventually returns.
C3_ShellCallReturns == (pc[Shell] # "idle") ~> (pc[Shell] = "idle")

\* C4: mine_block_local, called on a fresh chain with a pool of includable
\* transactions, eventually returns with exactly one block appended on the
\* genesis block (previous_hash the genesis hash, index 1) and an empty pool.
C4_MineAppendsBlock ==
    (pc[Shell] = "mine_get_balances_up_to_block" /\ Len(chain) = 1)
    ~> /\ pc[Shell] = "idle"
       /\ Len(chain) = 2
       /\ chain[2].previous_hash = chain[1].hash
       /\ chain[2].index = chain[1].index + 1
       /\ pending = <<>>

\* C5: no step adds to the pending pool, or gossips, a transfer of a user
\* whose chain-confirmed balance is lower than the amount, on the local path
\* and on the NEW_TRANSACTION path.
C5_UncoveredTransferNeverAdmitted ==
    [][/\ \A tx \in Range(pending') \ Range(pending) : ~Uncovered(chain, tx)
       /\ \A m \in sent' :
             m.type = MSG_TYPE_NEW_TRANSACTION => ~Uncovered(chain, m.data.tx)
       /\ result' \in {"local_insufficient", "tx_balance_lookup"}
             => pending' = pending /\ sent' = {}]_vars

\* C5, witness: a local transfer of a user with balance 0 was rejected and
\* the pool, which holds a transaction, was left as it was
C5_Witness == result = "local_insufficient" /\ Len(pending) = 1

\* C6: the pending pool never holds two entries with the same canonical
\* encoding.
C6_NoDuplicateInPool ==
    \A i, j \in 1..Len(pending) :
        i # j => canonical(pending[i]) # canonical(pending[j])

\* C6, witness: a transaction equal to a pooled one was submitted and dropped
C6_Witness ==
    /\ result \in {"local_duplicate", "tx_duplicate"}
    /\ Len(pending) >= 1

\* C7: resolve_conflicts replaces the local chain by the received chain if
\* the received chain is strictly longer, well formed and affordable in a
\* replay from genesis, and leaves the local chain as it is otherwise.
C7_ReplacedIffLongerValidAffordable ==
    [][\A t \in PeerAddrs : Resolves(t) =>
          IF /\ Len(cur[t].chain) > Len(chain)
             /\ ChainWellFormed(cur[t].chain)
             /\ TransfersAffordable(cur[t].chain)
          THEN chain' = cur[t].chain /\ result' = "chain_replaced"
          ELSE chain' = chain /\ result' = "chain_not_replaced"]_vars

\* C7, witness: a received chain of three blocks replaced the local chain
C7_Witness ==
    \E t \in PeerAddrs :
        /\ pc[t] = "rc_recalculate_all_balances"
        /\ chain = cur[t].chain
        /\ Len(chain) > 2
        /\ result = "chain_replaced"

\* C8: once a chain replacement was made, the handler eventually finishes
\* with the cached ledger equal to the replay of the new chain.
C8_ReplacementCompletes ==
    \A t \in PeerAddrs :
        (pc[t] = "rc_recalculate_all_balances")
        ~> (pc[t] = "idle" /\ ledger = ReplayBlocks(InitialBalances, chain))

\* C9: a received chain that is not longer than the local chain changes
\* neither the chain, nor the pool, nor the ledger, and resolve_conflicts
\* returns without a replacement.
C9_NotLongerIgnored ==
    [][\A t \in PeerAddrs :
          (Resolves(t) /\ Len(cur[t].chain) <= Len(chain)) =>
              /\ chain' = chain
              /\ pending' = pending
              /\ ledger' = ledger
              /\ pc'[t] = "idle"
              /\ lock' = NoThread
              /\ result' = "chain_not_replaced"]_vars

\* C9, witness: resolve_conflicts holds a well-formed chain of the length
\* of the local chain that differs from it
C9_Witness ==
    \E t \in PeerAddrs :
        /\ pc[t] = "resolve_conflicts"
        /\ Len(cur[t].chain) = Len(chain)
        /\ cur[t].chain # chain
        /\ ChainWellFormed(cur[t].chain)
        /\ pending # <<>>

\* C10: replaying the transfers of the chain the node holds, from the
\* initial allocation, never makes the balance of a principal other than
\* the system account negative.
C10_NoNegativeBalance ==
    \A k \in 0..Len(AllTxs(chain)) :
        \A p \in Principals \ {SYSTEM_ACCOUNT} :
            BalancesAfter(AllTxs(chain), k)[p] >= 0

---------------------------------------------------------------------------
(* The handling of a received block, stated without the operators of the   *)
(* model                                                                   *)

\* the results of the handling of a NEW_BLOCK message that drop the block
Dropped ==
    {"block_bad_index", "block_resync", "block_bad_hash", "block_unaffordable"}

\* the results of the validation of a NEW_BLOCK message
BlockResults == Dropped \cup {"block_validated"}

\* peer thread t takes the step that validates block data
Handles(t, data) == pc[t] = "idle" /\ RecvNewBlock(t, data)

\* every transfer of a user in transactions txs is covered by the balance
\* the user has once chain c and the transactions before it are applied
AffordableOn(c, txs) ==
    LET all == AllTxs(c) \o txs
    IN  \A k \in 1..Len(txs) :
           (IsTransfer(txs[k]) /\ Get(txs[k], "from", None) # SYSTEM_ACCOUNT)
           => BalancesAfter(all, Len(AllTxs(c)) + k - 1)[Get(txs[k], "from", None)]
                 >= Get(txs[k], "amount", 0)

\* block b fails one of the checks made on a received block
FailsCheck(c, b) ==
    \/ b.index # c[Len(c)].index + 1
    \/ b.previous_hash # c[Len(c)].hash
    \/ b.hash # calculate_hash(b)
    \/ ~AffordableOn(c, b.transactions)

\* thread t appends the block it validated
Appends(t) == pc[t] = "nb_lock" /\ pc'[t] = "nb_update_balances_from_block"

---------------------------------------------------------------------------
(* The claims on the ledger and on received blocks *)

\* C11: the cached ledger and the replay of the chain agree but while a
\* chain mutation is in progress: whenever they differ, they agree again
\* later.
C11_LedgerAgreesWithReplay ==
    (ledger # ReplayBlocks(InitialBalances, chain))
    ~> (ledger = ReplayBlocks(InitialBalances, chain))

\* C12, as claimed: a received block that fails a check is dropped; chain,
\* pool and ledger are unchanged, the block is not sent on, and nothing is
\* sent to the peer it came from.
C12_FailedBlockDroppedSilently ==
    [][result' \in Dropped =>
         \A t \in PeerAddrs : \A data \in ReceivedBlocks(chain) :
            (Handles(t, data) /\ FailsCheck(chain, data)) =>
                /\ UNCHANGED <<chain, pending, ledger>>
                /\ pc'[t] = "idle"
                /\ \A m \in sent' : m.type # MSG_TYPE_NEW_BLOCK /\ m.to # t]_vars

\* C12, amended: a received block that fails a check is dropped; chain,
\* pool and ledger are unchanged, the block is not sent on, and nothing is
\* sent to any peer, except that a block with the expected index and a wrong
\* previous_hash makes the node send REQUEST_CHAIN to every live peer, the
\* peer the block came from included.
C12_FailedBlockDropped ==
    [][result' \in BlockResults =>
       \A t \in PeerAddrs : \A data \in ReceivedBlocks(chain) :
          (Handles(t, data) /\ FailsCheck(chain, data)) =>
              /\ result' \in Dropped
              /\ UNCHANGED <<chain, pending, ledger>>
              /\ pc'[t] = "idle"
              /\ \A m \in sent' : m.type = MSG_TYPE_REQUEST_CHAIN
              /\ sent' # {} =>
                    /\ data.index = chain[Len(chain)].index + 1
                    /\ data.previous_hash # chain[Len(chain)].hash
                    /\ t \in {m.to : m \in sent'}]_vars

\* C12, witness: a block with the expected index and a wrong previous_hash
\* was dropped while the pool held a transaction, and a message went out
C12_Witness ==
    /\ result = "block_resync"
    /\ pending # <<>>
    /\ sent # {}

\* C13: a received block with index tip index + 1 whose previous_hash is
\* not the hash of the tip is discarded, and a REQUEST_CHAIN message goes to
\* every live peer.
C13_LinkMismatchRequestsChain ==
    [][result' \in BlockResults =>
       \A t \in PeerAddrs : \A data \in ReceivedBlocks(chain) :
          (/\ Handles(t, data)
           /\ data.index = chain[Len(chain)].index + 1
           /\ data.previous_hash # chain[Len(chain)].hash) =>
              /\ chain' = chain
              /\ pc'[t] = "idle"
              /\ {m.to : m \in sent'} = peers
              /\ \A m \in sent' : m.type = MSG_TYPE_REQUEST_CHAIN]_vars

\* C13, witness: the block was discarded and the request went to two peers
C13_Witness ==
    /\ result = "block_resync"
    /\ {m.to : m \in sent} = PeerAddrs
    /\ \A m \in sent : m.type = MSG_TYPE_REQUEST_CHAIN

\* C14: a node whose tip index is at least 2 lower than the index of the
\* block it receives answers the block by a REQUEST_CHAIN message to its
\* live peers.
C14_MissedBlocksRequestChain ==
    [][result' \in BlockResults =>
       \A t \in PeerAddrs : \A data \in ReceivedBlocks(chain) :
          (Handles(t, data) /\ data.index >= chain[Len(chain)].index + 2) =>
              \E m \in sent' : m.type = MSG_TYPE_REQUEST_CHAIN]_vars

C16_AcceptedBlockCompletes ==
    \A t \in PeerAddrs :
        (pc[t] = "nb_update_balances_from_block")
        ~> /\ pc[t] = "idle"
           /\ ledger = ApplyTxs(InitialBalances, AllTxs(chain))

---------------------------------------------------------------------------
(* Block production and reward synthesis, as the specification states them *)

\* the pooled transactions a produced block takes, in pool order: the
\* non-transfers and the transfers covered by the running balances bal
RECURSIVE Included(_, _)
Included(bal, pool) ==
    IF pool = <<>> THEN <<>>
    ELSE LET tx == Head(pool)
         IN  IF ~IsTransfer(tx) THEN <<tx>> \o Included(bal, Tail(pool))
             ELSE IF /\ Get(tx, "from", None) # SYSTEM_ACCOUNT
                     /\ bal[Get(tx, "from", None)] < Get(tx, "amount", 0)
             THEN Included(bal, Tail(pool))
             ELSE <<tx>> \o Included(ApplyTransfer(bal, tx), Tail(pool))

\* the pooled transactions a produced block leaves in the pool
Skipped(bal, pool) ==
    LET taken == {canonical(tx) : tx \in Range(Included(bal, pool))}
    IN  SelectSeq(pool, LAMBDA tx : canonical(tx) \notin taken)

\* the pools a node with the genesis block only can hold: well-shaped
\* transactions that are no transfers of users, no two equal
Pools ==
    LET admitted == {tx \in SubmittedTxs :
                        TxShapeValid(tx) /\ ~Uncovered(<<>>, tx)}
    IN  {p \in UNION {[1..n -> admitted] : n \in 1..MaxPending} :
            \A i, j \in 1..Len(p) : i # j => p[i] # p[j]}

\* the shell takes the step of mine_block_local
Mines == pc[Shell] = "idle" /\ MineBlockLocal

\* the greatest element of a set of numbers that is not empty
Last(S) == CHOOSE i \in S : \A j \in S : j <= i

\* chain c, whose tip is block b, owes doctor D the reward for a test: b
\* holds a LAB_TEST_RESULT, and the most recent DOCTOR_CONSULTATION of the
\* same patient in c that ordered the test is by D
LabRewardDue(c, b, D) ==
    \E r \in Range(b.transactions) :
        /\ Get(r, "type", None) = "LAB_TEST_RESULT"
        /\ LET h == AllTxs(c)
               S == {i \in 1..Len(h) :
                       /\ Get(h[i], "type", None) = "DOCTOR_CONSULTATION"
                       /\ Get(h[i], "patient_id", None) = Get(r, "patient_id", None)
                       /\ Get(r, "test_name", None)
                              \in Range(Get(h[i], "tests_ordered", <<>>))}
           IN  S # {} /\ Get(h[Last(S)], "doctor", None) = D

\* chain c, whose tip is block b, owes doctor D the reward for a filled
\* prescription: b holds a PRESCRIPTION_FILLED whose reference is the
\* timestamp of a PRESCRIPTION of the same patient in c, prescribed by D
FillRewardDue(c, b, D) ==
    \E f \in Range(b.transactions) :
        /\ Get(f, "type", None) = "PRESCRIPTION_FILLED"
        /\ LET h == AllTxs(c)
               S == {i \in 1..Len(h) :
                       /\ Get(h[i], "type", None) = "PRESCRIPTION"
                       /\ Get(h[i], "patient_id", None) = Get(f, "patient_id", None)
                       /\ Get(h[i], "timestamp", None)
                              = Get(f, "references_prescription_timestamp", None)}
           IN  S # {} /\ Get(h[Last(S)], "prescribed_by", None) = D

\* the pool holds a transfer of amount units from the system account to D
RewardPooled(D, amount) ==
    \E i \in 1..Len(pending) :
        /\ IsTransfer(pending[i])
        /\ Get(pending[i], "from", None) = SYSTEM_ACCOUNT
        /\ Get(pending[i], "to", None) = D
        /\ Get(pending[i], "amount", 0) = amount

---------------------------------------------------------------------------
(* The claims on block production and reward synthesis *)

\* C17: mine_block_local, called with a pool, ends with a new tip that
\* holds, in pool order, the pooled non-transfers and the pooled transfers
\* covered by the running balances that start from the ledger at the old
\* tip, and with a pool that holds the skipped transactions only.
C17_MinedBlockTakesAffordable ==
    \A p \in Pools :
        (pc[Shell] = "mine_get_balances_up_to_block" /\ pending = p)
        ~> LET n == Len(chain)
               bal == ApplyTxs(InitialBalances, AllTxs(SubSeq(chain, 1, n - 1)))
           IN  /\ pc[Shell] = "idle"
               /\ chain[n].transactions = Included(bal, p)
               /\ pending = Skipped(bal, p)

C19_LabRewardSynthesized ==
    \A t \in PeerAddrs :
        (/\ pc[t] = "nb_update_balances_from_block"
         /\ LabRewardDue(chain, cur[t].block, "dr_alice"))
        ~> RewardPooled("dr_alice", 500)

\* C20: once a node accepted a block with a PRESCRIPTION_FILLED that refers
\* to the timestamp of a PRESCRIPTION of the same patient by dr_alice, a
\* transfer of 700 units from the system account to dr_alice gets into the
\* pool of the node; and no transfer of 700 units from the system account is
\* in the pool of a node whose chain holds no such pair.
C20_FillRewardSynthesized ==
    /\ \A t \in PeerAddrs :
          (/\ pc[t] = "nb_update_balances_from_block"
           /\ FillRewardDue(chain, cur[t].block, "dr_alice"))
          ~> RewardPooled("dr_alice", 700)
    /\ [](\A D \in USERS :
            (\A i \in 1..Len(chain) : ~FillRewardDue(chain, chain[i], D))
            => ~RewardPooled(D, 700))

---------------------------------------------------------------------------
(* The claims on admission *)

\* the types of transactions the specification recognizes
RecognizedTypes ==
    {"genesis", "PATIENT_REGISTRATION", "DOCTOR_CONSULTATION", "LAB_TEST_RESULT",
     "PRESCRIPTION", "PRESCRIPTION_FILLED", TX_TRANSFER_ECASH}

\* C21: no transaction of the pending pool has the canonical encoding of a
\* transaction that is in a block of the chain.
C21_PoolDisjointFromChain ==
    \A i \in 1..Len(pending) :
        \A j \in 1..Len(AllTxs(chain)) :
            canonical(pending[i]) # canonical(AllTxs(chain)[j])

\* C22: every transaction of the pending pool carries a recognized type, and
\* every pooled transfer has from, to and an amount greater than 0.
C22_PoolHoldsRecognizedTypes ==
    \A i \in 1..Len(pending) :
        /\ "type" \in DOMAIN pending[i]
        /\ pending[i].type \in RecognizedTypes
        /\ pending[i].type = TX_TRANSFER_ECASH =>
              /\ {"from", "to", "amount"} \subseteq DOMAIN pending[i]
              /\ pending[i].amount \in Nat \ {0}

---------------------------------------------------------------------------
(* The claims on the lock *)

\* C23: no message is handed to send_message by a thread that holds the
\* node lock.
C23_NoSendUnderLock == \A m \in sent : m.lock = NoThread

\* C24: every step that changes the chain, the pending pool, the peer
\* registry or the ledger is taken while the lock is free, by a thread that
\* takes it for the step, or by the thread that holds it.
C24_MutationsUnderLock ==
    [][(chain' # chain \/ pending' # pending \/ peers' # peers \/ ledger' # ledger)
         => \/ lock = NoThread
            \/ \E t \in Threads : lock = t /\ pc'[t] # pc[t]]_vars

---------------------------------------------------------------------------
(* The claims on gossip *)

\* the receive loop of connection t admits a transaction
Admits(t) ==
    /\ pc[t] = "idle"
    /\ result' = "tx_added"
    /\ \E data \in SubmittedTxs : RecvNewTransaction(t, data)

\* C29: when the node admits a transaction received on a connection, no
\* copy of it goes to the node at the far end of that connection, whichever
\* nodes the connections of the registry lead to, and a copy goes to every
\* other live connection.
C29_NoEchoToOrigin ==
    [][\A t \in PeerAddrs : Admits(t) =>
          /\ {m.to : m \in sent'} = peers \ {t}
          /\ \A topology \in Topologies :
                \A m \in sent' : topology[m.to] # topology[t]]_vars


\* C25: for each of the six message types, a value framed by send_message
\* (3-byte big-endian length, 1-byte type, payload) and read back by the
\* receive loop yields the same message type and a value equal to the
\* original: the length and the type the loop parses from the header are
\* those of the value written, and the message handed to _process_message
\* has the type and the value send_message was called with.
C25_WireRoundTrip ==
    \A addr \in PeerAddrs :
        /\ rx[addr].phase = "payload" =>
              /\ rx[addr].msg_len = wire[addr].sent.pickled
              /\ rx[addr].msg_type = wire[addr].sent.type
        /\ pc[addr] = "process_message" =>
              /\ rx[addr].message.type = wire[addr].sent.type
              /\ rx[addr].message.data = wire[addr].sent.data

\* C25, witness: a SEND_PEERS value whose length needs all three length
\* bytes was read back, in several reads, and handed to _process_message
C25_Witness ==
    \E addr \in PeerAddrs :
        /\ pc[addr] = "process_message"
        /\ rx[addr].message.type = MSG_TYPE_SEND_PEERS
        /\ rx[addr].message.data = "list_of_addresses"
        /\ rx[addr].bytes_recd > 256 * 256
        /\ rx[addr].bytes_recd > MSG_BUFFER_SIZE

\* the receive loop of addr holds a complete payload that is no pickle
Undecodable(addr) ==
    /\ pc[addr] = "idle"
    /\ rx[addr].phase = "payload"
    /\ rx[addr].bytes_recd >= rx[addr].msg_len
    /\ rx[addr].data.of.malformed # "no"

\* the receive loop of addr is in a handler that raises
HandlerFails(addr) ==
    /\ pc[addr] = "process_message"
    /\ HandlerRaises(rx[addr].message)

\* C27: when the payload of a received frame cannot be decoded, or
\* processing the decoded message fails, only that message is discarded:
\* the receive loop goes on, the connection stays open and the peer stays
\* in the registry.
C27_FailureKeepsConnection ==
    [][\A addr \in PeerAddrs :
          (\/ Undecodable(addr) /\ Decode(addr)
           \/ HandlerFails(addr) /\ ProcessMessage(addr))
          => /\ addr \in peers'
             /\ sock'[addr] = "open"
             /\ pc'[addr] = "idle"
             /\ rx'[addr] = NoLocals]_vars

\* the shell broadcasts while the transport of the registered peer addr has
\* failed: send_message to addr hits a transport failure
SendFails(addr) ==
    /\ addr \in peers
    /\ sock[addr] # "open"
    /\ BroadcastRequestChain

\* C26: when send_message hits a transport failure on a connection, the
\* peer owning that connection is no longer in the peer registry
\* afterwards, the socket is closed, and the failure does not reach the
\* caller: broadcast goes on and writes to every remaining peer.
C26_FailedSendRemovesPeer ==
    [][\A addr \in PeerAddrs : SendFails(addr) =>
          /\ addr \notin peers'
          /\ sock'[addr] = "closed"
          /\ \A other \in peers :
                sock[other] = "open" => \E m \in sent' : m.to = other]_vars

\* C28: after stop() is called, every long-running task of the node (the
\* accept loop, the periodic connector, every receive loop) eventually
\* exits, the listening socket and every peer socket are closed, and the
\* peer registry eventually becomes empty.
C28_StopEndsEverything ==
    stop_event ~>
        /\ \A k \in Tasks : tasks[k] = "exited"
        /\ \A t \in PeerAddrs : pc[t] = "closed"
        /\ server_socket = "closed"
        /\ \A addr \in PeerAddrs : sock[addr] \in {"none", "closed"}
        /\ peers = {}

\* thread t is inside the critical section of resolve_conflicts
InResolve(t) == pc[t] \in {"resolve_conflicts", "rc_recalculate_all_balances"}

\* C30: when several SEND_CHAIN offers that are each longer than the local
\* chain arrive concurrently on different connections, they are processed
\* one at a time under the lock: at most one thread is inside
\* resolve_conflicts and it holds the lock; the offer processed first that
\* is well formed and affordable replaces the chain; and whenever the chain
\* is replaced, it is by the offer of the thread that holds the lock, which
\* is strictly longer than the chain then held; the length of the chain
\* grows with every replacement, so of two competing offers of equal length
\* never both take effect.
C30_OffersOneAtATime ==
    [][/\ \A t, u \in PeerAddrs : (InResolve(t) /\ InResolve(u)) => t = u
       /\ \A t \in PeerAddrs : InResolve(t) => lock = t
       /\ \A t \in PeerAddrs :
            (/\ Resolves(t)
             /\ Len(cur[t].chain) > Len(chain)
             /\ ChainWellFormed(cur[t].chain)
             /\ TransfersAffordable(cur[t].chain)) => chain' = cur[t].chain
       /\ chain' # chain =>
            \E t \in PeerAddrs :
                /\ pc[t] = "resolve_conflicts"
                /\ lock = t
                /\ chain' = cur[t].chain
                /\ Len(chain') > Len(chain)]_vars

\* C30, witness: two different well-formed chains of the same length, both
\* longer than the chain the node held, arrived on two connections; one
\* replaced the chain while the other waits for the lock
C30_Witness ==
    \E t, u \in PeerAddrs :
        /\ t # u
        /\ pc[t] = "rc_recalculate_all_balances"
        /\ chain = cur[t].chain
        /\ pc[u] = "rc_lock"
        /\ Len(cur[u].chain) = Len(chain)
        /\ cur[u].chain # chain
        /\ ChainWellFormed(cur[u].chain)
        /\ TransfersAffordable(cur[u].chain)
        /\ result = "chain_replaced"

---------------------------------------------------------------------------
(* Properties the specification leaves implicit *)

\* C31: handling a NEW_TRANSACTION, NEW_BLOCK or SEND_CHAIN message never
\* blocks for ever: no thread asks for the lock of the node while it holds
\* it, so a receive loop that took the lock eventually releases it and is
\* back at the top of its loop.
C31_HandlerReleasesLock ==
    \A t \in PeerAddrs : (lock = t) ~> (lock # t /\ pc[t] = "idle")

\* the transactions the step gossips
Gossiped == {m.data.tx : m \in {n \in sent' : n.type = MSG_TYPE_NEW_TRANSACTION}}

\* C32: a transaction that is already in the pool, or that is rejected at
\* admission, is never broadcast again: the node gossips a transaction only
\* in the step that adds it to its pool, which it does only when the pool
\* does not hold it; and a step that takes transactions out of the pool
\* leaves the lock taken, so that no admission follows it.  A node thus
\* gossips a transaction once, and flooding comes to rest.
C32_GossipOnlyOnAdmission ==
    [][/\ \A tx \in Gossiped :
            /\ \A i \in 1..Len(pending) : canonical(pending[i]) # canonical(tx)
            /\ pending' = Append(pending, tx)
       /\ (\E i \in 1..Len(pending) :
              \A j \in 1..Len(pending') : pending'[j] # pending[i])
            => lock' # NoThread]_vars

\* C32, witness: with two peers registered, a transaction the pool holds
\* arrived again and nothing was sent
C32_Witness ==
    /\ result = "tx_duplicate"
    /\ peers = PeerAddrs
    /\ Len(pending) > 0
    /\ sent = {}

\* the receive loop of addr reads from a stream that holds unread bytes
ReadsFrom(addr) ==
    /\ pc[addr] = "idle"
    /\ wire[addr].header # <<>> \/ Size(wire[addr].body) > 0
    /\ wire'[addr] # wire[addr]

\* C33: for any way the byte stream of a connection is split into reads,
\* short reads of the 4-byte header as well as of the payload, the receive
\* loop delivers the frames that were sent, each with its full payload, and
\* keeps the connection open: no read of bytes that were sent ends the loop,
\* and a payload that is complete is the payload that was written.
C33_AnySplitDelivers ==
    [][\A addr \in PeerAddrs : ReadsFrom(addr) =>
          /\ pc'[addr] # "closed"
          /\ addr \in peers'
          /\ sock'[addr] = "open"
          /\ wire'[addr].sent = wire[addr].sent
          /\ (rx'[addr].phase = "payload"
                /\ rx'[addr].bytes_recd >= rx'[addr].msg_len
                /\ wire[addr].sent.malformed = "no")
             => /\ rx'[addr].data.lo = 1
                /\ rx'[addr].data.hi = wire[addr].sent.pickled]_vars

\* C34: in every chain a node holds, each transaction (by canonical
\* encoding) is in at most one block, so that no transfer is applied to the
\* ledger twice.
C34_TxInAtMostOneBlock ==
    \A i, j \in 1..Len(AllTxs(chain)) :
        i # j => canonical(AllTxs(chain)[i]) # canonical(AllTxs(chain)[j])

\* tx is a reward transfer: amount units from the system account to D
IsReward(tx, D, amount) ==
    /\ Get(tx, "type", None) = TX_TRANSFER_ECASH
    /\ Get(tx, "from", None) = SYSTEM_ACCOUNT
    /\ Get(tx, "to", None) = D
    /\ Get(tx, "amount", 0) = amount

\* the number of reward transfers to D the node holds, pooled or in blocks
RewardCount(D, amount) ==
    Cardinality({i \in 1..Len(pending) : IsReward(pending[i], D, amount)})
    + Cardinality({i \in 1..Len(AllTxs(chain)) : IsReward(AllTxs(chain)[i], D, amount)})

C36_ChainTransfersPositive ==
    \A i \in 1..Len(AllTxs(chain)) :
        Get(AllTxs(chain)[i], "type", None) = TX_TRANSFER_ECASH
            => /\ "amount" \in DOMAIN AllTxs(chain)[i]
               /\ AllTxs(chain)[i].amount \in Nat \ {0}

\* block b is the next block of chain c: it names the hash of the tip and
\* carries the index after the tip's
FitsTip(b, c) ==
    /\ c # <<>>
    /\ b.previous_hash = c[Len(c)].hash
    /\ b.index = c[Len(c)].index + 1

\* thread t, which validated a block and waited for the lock, goes on
Appending(t) == pc[t] = "nb_lock" /\ pc'[t] # "nb_lock"

\* C37: a remote block validated outside the lock is appended only if, at
\* the moment of the append, its previous_hash is the hash of the tip and
\* its index the index of the tip plus one; when the chain changed between
\* validation and append, the block is not appended and chain, pool and
\* ledger stay as they are.
C37_AppendRechecksTip ==
    [][\A t \in PeerAddrs : Appending(t) =>
          IF FitsTip(cur[t].block, chain)
          THEN chain' = Append(chain, cur[t].block)
          ELSE chain' = chain /\ pending' = pending /\ ledger' = ledger]_vars

\* C37, witness: two receive loops validated a block on the same tip; one
\* appended its block, and the block the other holds no longer fits the tip
C37_Witness ==
    \E t, u \in PeerAddrs :
        /\ pc[t] = "nb_lock"
        /\ ~FitsTip(cur[t].block, chain)
        /\ pc[u] = "nb_update_balances_from_block"
        /\ chain[Len(chain)] = cur[u].block

\* C38: a registry entry is removed only because the connection it maps to
\* failed: when a connection from an address failed and a new live
\* connection was registered under the address, the exit of the receive
\* loop of the old one does not remove the new entry, so every open
\* connection with a running receive loop is in the registry.
C38_LiveConnectionRegistered ==
    \A addr \in PeerAddrs : \A c \in Connections :
        loops[addr][c] = "running" => (addr \in peers /\ registry[addr] = c)

\* C39: the length of the chain of a node never decreases: every step,
\* whether it mines, accepts a remote block, replaces the chain or rejects
\* a message, leaves the chain at least as long as it was.
C39_ChainNeverShrinks == [][Len(chain') >= Len(chain)]_vars

\* C39, witness: a node with two peers turned down an offered list that is
\* not longer than its chain, or not valid, and holds the chain it started
\* with
C39_Witness ==
    /\ result = "chain_not_replaced"
    /\ Len(chain) = 1
    /\ chain = <<create_genesis_block(OwnStart)>>
    /\ peers = PeerAddrs

\* C40: the genesis block of a node, created at construction with the
\* timestamp of the node, never changes: a chain replacement is accepted
\* only for a chain that starts with the node's own genesis block.
C40_GenesisNeverChanges ==
    /\ chain # <<>>
    /\ chain[1] = create_genesis_block(OwnStart)
===========================================================================
